---- MODULE Spec2Model ----
(***************************************************************************)
(* Model of libcpr (src/libcpr.c): qtm_clone_file and qtm_clone_file_range, *)
(* the FICLONE / FICLONERANGE attempt and the read()/write() deep copy.     *)
(*                                                                          *)
(* One behaviour is one call of a public operation on a pair of open files. *)
(* Every system call of the call is one step, so that short reads, short    *)
(* writes, interrupted calls and failing calls interleave freely.           *)
(*                                                                          *)
(* off_t values are 64 bits wide and do not fit the model checker's         *)
(* integers, so an offset is a pair <<h, l>> standing for h * 2^30 + l      *)
(* with 0 <= l < 2^30.                                                      *)
(***************************************************************************)
EXTENDS Integers, Sequences, FiniteSets, TLC

(* ------------------------------ bounds --------------------------------- *)

MaxSrcLen == 3
MaxDstLen == 3
MaxLen    == 3
MaxBlock  == 2
MaxIntr   == 1

(* ------------------------- program constants --------------------------- *)

EINTR      == 4
EIO        == 5
ENOMEM     == 12
EXDEV      == 18
EINVAL     == 22
ENOSPC     == 28
ESPIPE     == 29
ERANGE     == 34
EOPNOTSUPP == 95
CprBlockSize == 8192
EXIT_SUCCESS == 0
EXIT_FAILURE == 1
EPERM  == 1
ENOENT == 2
EACCES == 13
EEXIST == 17

VALID_SRC_FD == 3
VALID_DST_FD == 4

(* the error codes the clone ioctl is made to fail with *)
NativeErrs == {EXDEV, EOPNOTSUPP}

(* ------------------------------ off_t ---------------------------------- *)

OffBase == 1073741824

Off(n) == <<0, n>>

MinusOne == <<-1, OffBase - 1>>

OffNeg(a) == a[1] < 0

OffLess(a, b) == a[1] < b[1] \/ (a[1] = b[1] /\ a[2] < b[2])

OffMax(a, b) == IF OffLess(a, b) THEN b ELSE a

OffAdd(a, n) ==
  IF a[2] + n < OffBase THEN <<a[1], a[2] + n>>
                        ELSE <<a[1] + 1, a[2] + n - OffBase>>

(* the conversion of an off_t to a 32-bit int: the low 32 bits, signed *)
ToInt32(a) ==
  LET q == a[1] % 4
  IN  IF q < 2 THEN q * OffBase + a[2] ELSE (q - 4) * OffBase + a[2]

(* ------------------------------ files ---------------------------------- *)

(* the copy never looks at a byte's value, so the source holds a different
   byte at every position and the destination starts out with bytes the
   source does not have *)
SrcPattern(k) == [i \in 1..k |-> i]

DstBytes == {99}
NoByte   == -1
Uninit   == -2

MkFile(s) == [size |-> Off(Len(s)),
              data |-> [p \in {Off(i - 1) : i \in 1..Len(s)} |-> s[p[2] + 1]]]

(* the byte of file f at position p; a hole reads as zero *)
ByteAt(f, p) ==
  IF ~OffLess(p, f.size) \/ OffNeg(p) THEN NoByte
  ELSE IF p \in DOMAIN f.data THEN f.data[p] ELSE 0

(* how many of the n bytes at position pos lie before the end of file *)
Avail(f, pos, n) ==
  LET least(a, b) == IF a < b THEN a ELSE b
      units == f.size[1] - pos[1]
  IN  IF ~OffLess(pos, f.size) THEN 0
      ELSE IF units >= 2 THEN n
      ELSE IF units = 1 THEN least(n, (OffBase - pos[2]) + f.size[2])
      ELSE least(n, f.size[2] - pos[2])

ReadBytes(f, pos, n) == [i \in 1..n |-> ByteAt(f, OffAdd(pos, i - 1))]

WriteBytes(f, pos, bytes) ==
  LET b == bytes
      n == Len(b)
      new == {OffAdd(pos, i - 1) : i \in 1..n}
      InNew(p) == ~OffLess(p, pos) /\ OffLess(p, OffAdd(pos, n))
      IndexOf(p) == (p[1] - pos[1]) * OffBase + (p[2] - pos[2]) + 1
  IN  [size |-> OffMax(f.size, OffAdd(pos, n)),
       data |-> [p \in (DOMAIN f.data) \cup new |->
                   IF InNew(p) THEN b[IndexOf(p)] ELSE f.data[p]]]

SeqsUpTo(S, n) == UNION {[1..k -> S] : k \in 0..n}


(* --------------------- the platform clone capability ------------------- *)

(* FICLONE: the destination becomes a copy of the whole source *)
FicloneEffect(srcf, dstf) == srcf

(* bytes from pos to the end of a file whose size is below 2^30 *)
ToEof(f, pos) == Avail(f, pos, f.size[2])

(* number of bytes a span covers: length, or to the source end if zero *)
SpanBytes(srcf, so, len) == IF len # 0 THEN len ELSE ToEof(srcf, so)

(* FICLONERANGE is accepted only for a span inside the source *)
FicloneRangeOk(srcf, so, len) ==
  /\ ~OffLess(srcf.size, so)
  /\ Avail(srcf, so, len) = len

(* FICLONERANGE: the span of the destination becomes a copy of the source's *)
FicloneRangeEffect(srcf, dstf, so, do, len) ==
  WriteBytes(dstf, do, ReadBytes(srcf, so, SpanBytes(srcf, so, len)))

(* ---------------------- pure parts of src/libcpr.c --------------------- *)

(* variant: the first operand whatever the second *)
MIN_first(x, y) == x

MIN(x, y) == IF x <= y THEN x ELSE y

(* clone_file_impl / clone_file_range_impl: rc = ioctl(); if (rc < 0) rc = errno *)
clone_file_impl(ret, err) == IF ret < 0 THEN err ELSE ret

clone_file_range_impl(ret, err) == IF ret < 0 THEN err ELSE ret

(* variant: the result of lseek is not looked at *)
seek_file_ignore(ret, err) == 0

(* seek_file: int rc = lseek(); -1 -> errno, positive -> 0, anything else as is *)
seek_file(ret, err) ==
  LET r == ToInt32(ret)
  IN  IF r = -1 THEN err ELSE IF r > 0 THEN 0 ELSE r

(* the argument checks of the two public operations *)
(* variant: a zero block size is refused whether or not fallback is asked *)
qtm_clone_file_invalid_anyblock(src_fd, dst_fd, fallback_copy, block_size) ==
  src_fd < 0 \/ dst_fd < 0 \/ block_size = 0

qtm_clone_file_invalid(src_fd, dst_fd, fallback_copy, block_size) ==
  src_fd < 0 \/ dst_fd < 0 \/ (fallback_copy /\ block_size = 0)

(* variant: the destination offset is not checked *)
qtm_clone_file_range_invalid_nodst(src_fd, dst_fd, so, do, fallback_copy, block_size) ==
  src_fd < 0 \/ dst_fd < 0 \/ OffNeg(so) \/ (fallback_copy /\ block_size = 0)

qtm_clone_file_range_invalid(src_fd, dst_fd, so, do, fallback_copy, block_size) ==
  src_fd < 0 \/ dst_fd < 0 \/ OffNeg(so) \/ OffNeg(do)
    \/ (fallback_copy /\ block_size = 0)

(* variant: the fallback flag is not consulted *)
NeedsDeepCopy_noflag(r, fallback_copy) == r # 0

(* if (rc != 0 && fallback_copy) *)
NeedsDeepCopy(r, fallback_copy) == r # 0 /\ fallback_copy

(* variant: the whole-file operation asks the deep copy for one byte *)
FileSpan_one(a) == [src_offset |-> Off(0), dst_offset |-> Off(0), length |-> 1]

(* the span each public operation hands to the deep copy *)
FileSpan(a) == [src_offset |-> Off(0), dst_offset |-> Off(0), length |-> 0]

(* variant: the two offsets are exchanged *)
RangeSpan_swapped(a) == [src_offset |-> a.dst_offset, dst_offset |-> a.src_offset,
                         length |-> a.length]

RangeSpan(a) == [src_offset |-> a.src_offset, dst_offset |-> a.dst_offset,
                 length |-> a.length]

(* open_files: the flags of the first open of DST_FILE *)
(* variant: the destination is never opened exclusively *)
OpenFlags_noexcl(clone_mode) == {"O_WRONLY", "O_CREAT"}

OpenFlags(clone_mode) ==
  {"O_WRONLY", "O_CREAT"} \cup (IF clone_mode = "file" THEN {"O_EXCL"} ELSE {})

(* open_files: the flags of the second open, made under -f after EEXIST *)
ForceFlags == {"O_WRONLY", "O_TRUNC"}

(* open(2) on a regular file: the errno it fails with, or 0 *)
OpenErrno(exists, flags, ok) ==
  IF exists /\ {"O_CREAT", "O_EXCL"} \subseteq flags THEN EEXIST
  ELSE IF ~exists /\ "O_CREAT" \notin flags THEN ENOENT
  ELSE IF ok THEN 0
  ELSE EACCES

(* open(2) that succeeded: a created or truncated file is empty *)
OpenEffect(f, exists, flags) ==
  IF ~exists \/ "O_TRUNC" \in flags THEN MkFile(<<>>) ELSE f

(* close_files: rc = close(src_fd); rc2 = close(dst_fd); rc = rc == 0 ? rc2 : rc *)
close_files(src_fd, dst_fd, ret1, ret2) ==
  LET r1 == IF src_fd >= 0 THEN ret1 ELSE 0
  IN  IF dst_fd >= 0 THEN (IF r1 = 0 THEN ret2 ELSE r1) ELSE r1

(* variant: the code close_files returned is not looked at *)
ExitStatus_noclose(r, close_rc) ==
  IF r = 0 THEN EXIT_SUCCESS ELSE EXIT_FAILURE

(* main: rc = (rc == 0) ? close_rc : rc; return rc == 0 ? EXIT_SUCCESS : EXIT_FAILURE *)
ExitStatus(r, close_rc) ==
  LET r2 == IF close_rc # 0 /\ r = 0 THEN close_rc ELSE r
  IN  IF r2 = 0 THEN EXIT_SUCCESS ELSE EXIT_FAILURE

(* size_t remain = (length != 0) ? length : block_size *)
InitRemain(length, block_size) == IF length # 0 THEN length ELSE block_size

(* variant: a read of 0 bytes in copy-to-EOF mode is taken for a block *)
ReadClass_noeof(read_now, length, remain) ==
  IF read_now = 0 /\ length # 0 /\ remain # 0 THEN "erange" ELSE "write"

(* what the loop does with the result of a read that did not fail *)
ReadClass(read_now, length, remain) ==
  IF read_now = 0 /\ length = 0 THEN "eof"
  ELSE IF read_now = 0 /\ remain # 0 THEN "erange"
  ELSE "write"

(* variant: the remaining length is decremented in copy-to-EOF mode too *)
NextRemain_always(length, remain, read_now) == remain - read_now

(* if (length != 0) remain -= read_now *)
NextRemain(length, remain, read_now) ==
  IF length # 0 THEN remain - read_now ELSE remain

(* variant: the block pointer is not advanced after a partial write *)
WbAdvance_stuck(p, wrote_now) == p

(* write_block: p_block += wrote_now; length -= wrote_now *)
WbAdvance(p, wrote_now) == p + wrote_now

(* variant: write_block takes any accepted write for the whole block *)
WbRemaining_all(len, wrote_now) == 0

WbRemaining(len, wrote_now) == len - wrote_now

(* the block is kept as its bytes up to the last one ever stored; those
   after it are as malloc left them *)
BlockAt(block, i) == IF i <= Len(block) THEN block[i] ELSE Uninit

(* the bytes write() is handed: length bytes from the block pointer on *)
WbChunk(block, p, n) == [i \in 1..n |-> BlockAt(block, p + i)]

(* read() stores n bytes at the start of the block *)
FillBlock(block, bytes) ==
  LET b == bytes
      n == Len(b)
      m == Len(block)
  IN  [i \in 1..(IF n > m THEN n ELSE m) |-> IF i <= n THEN b[i] ELSE block[i]]


(* ------------------------------- state --------------------------------- *)

VARIABLES
  src,      \* the source file: [size, data]
  dst,      \* the destination file
  srcPos,   \* file position of the source handle
  dstPos,   \* file position of the destination handle
  errno,    \* the C library's errno
  pc,       \* where the call stands
  arg,      \* the arguments of the public operation
  dc,       \* arguments and locals of deep_copy_file_range_impl and write_block
  rc,       \* the return code being built; the result once pc = "done"
  gh,       \* history: state at call time, system calls made, bytes moved
  tape,     \* the outcomes of the deep copy's system calls, kept for a second run
  cpr       \* the cpr driver: its options, handles and position in main

vars == <<src, dst, srcPos, dstPos, errno, pc, arg, dc, rc, gh, tape, cpr>>

NoArg == [op |-> "none", src_fd |-> -1, dst_fd |-> -1, src_offset |-> Off(0),
          dst_offset |-> Off(0), length |-> 0, fallback_copy |-> FALSE,
          block_size |-> 0]

NoDc == [src_offset |-> Off(0), dst_offset |-> Off(0), length |-> 0,
         block_size |-> 0, remain |-> 0, read_max |-> 0, read_now |-> 0,
         heap |-> "none", block |-> <<>>, wb_p |-> 0, wb_length |-> 0]

NoGh == [src0 |-> MkFile(<<>>), dst0 |-> MkFile(<<>>), srcPos0 |-> Off(0),
         dstPos0 |-> Off(0), valid |-> FALSE, ioctl |-> 0, lseek |-> 0,
         malloc |-> 0, read |-> 0, write |-> 0, free |-> 0,
         first |-> "none", nativeErr |-> 0,
         seeks |-> {}, nread |-> 0, written |-> 0, intr |-> 0, shortio |-> FALSE,
         sysErr |-> FALSE, rcAlt |-> 0, errnoAlt |-> 0,
         failed |-> "none", failCode |-> 0, wbAccepted |-> 0, wbDst |-> Off(0)]

(* outcomes on the tape: bytes moved (or 1 for a seek or an allocation that
   succeeded), an interrupted call, a failed call *)
INTERRUPTED == -1
FAILED      == -2

NoTape == [mode |-> "off", log |-> <<>>, replay |-> <<>>,
           prev |-> [rc |-> 0, dst |-> MkFile(<<>>), arg |-> NoArg,
                     nativeErr |-> 0]]

(* cpr's operation_t as main initialises it, the return code of main, the
   exit status, and whether DST_FILE exists; dst0, existed, truncated,
   opened, closed and ran (the steps of main that ran, each with the code it
   returned) are history *)

NoCpr == [step |-> "none", fallback_copy |-> FALSE, block_size |-> CprBlockSize,
          force |-> FALSE, preserve_mode |-> {}, clone_mode |-> "file",
          src_offset |-> Off(0), src_length |-> 0, dst_offset |-> Off(0),
          src_fd |-> -1, dst_fd |-> -1, rc |-> 0, status |-> -1,
          dst_exists |-> FALSE, dst0 |-> MkFile(<<>>), existed |-> FALSE,
          truncated |-> FALSE, closed |-> {}, opened |-> {}, ran |-> <<>>]

(* the arguments main passes to the library *)
CprArg == [op |-> cpr.clone_mode, src_fd |-> cpr.src_fd, dst_fd |-> cpr.dst_fd,
           src_offset |-> cpr.src_offset, dst_offset |-> cpr.dst_offset,
           length |-> cpr.src_length, fallback_copy |-> cpr.fallback_copy,
           block_size |-> cpr.block_size]

(* the offsets and lengths given on cpr's command line *)
CprOffsets == {Off(1)}
CprLengths == {MaxLen}

(* the offsets a caller passes: negative, small, and around 2^31 and 2^32 *)
Offsets == {MinusOne, Off(0), Off(1), <<2, 0>>, <<3, OffBase - 1>>, <<4, 0>>}

InitPos == {Off(0), Off(1)}

InitLib ==
  /\ src \in {MkFile(SrcPattern(k)) : k \in 0..MaxSrcLen}
  /\ dst \in {MkFile(s) : s \in SeqsUpTo(DstBytes, MaxDstLen)}
  /\ srcPos \in InitPos
  /\ dstPos = srcPos
  /\ errno = 0
  /\ pc = "idle"
  /\ arg = NoArg
  /\ dc = NoDc
  /\ rc = 0
  /\ gh = NoGh

Init ==
  /\ InitLib
  /\ tape = NoTape
  /\ cpr = NoCpr

(* a system call of the deep copy has outcome o: in a second run only the
   next outcome on the tape can happen; a run that is kept records it *)
Outcome(o) ==
  /\ tape.mode \in {"off", "first"} \/ (tape.replay # <<>> /\ Head(tape.replay) = o)
  /\ tape' = CASE tape.mode = "off" -> tape
               [] tape.mode = "first" -> [tape EXCEPT !.log = Append(@, o)]
               [] OTHER -> [tape EXCEPT !.log = Append(@, o), !.replay = Tail(@)]

(* the clone attempt of a second run ends as that of the first *)
MayClone(nerr) == tape.mode \in {"off", "first"} \/ nerr = tape.prev.nativeErr

(* the values an argument may take: any of S, or the first run's *)
Pick(S, field) ==
  IF tape.mode \in {"rerun", "emulate"} THEN {tape.prev.arg[field]}
  ELSE IF cpr.step = "clone" THEN {CprArg[field]}
  ELSE S

(* the arguments a call may have: any, or those the second run is about *)
MayCall(a) ==
  CASE tape.mode = "rerun" -> a = tape.prev.arg
    [] tape.mode = "emulate" -> a = [tape.prev.arg EXCEPT !.op = "range"]
    [] cpr.step = "clone" -> a.op = cpr.clone_mode
    [] OTHER -> cpr.step = "none"

(* the first system call of the call, for the order of events *)
First(g, name) == IF g.first = "none" THEN name ELSE g.first

Snapshot == [NoGh EXCEPT !.src0 = src, !.dst0 = dst, !.srcPos0 = srcPos,
                         !.dstPos0 = dstPos]

(* --------------------------- public operations ------------------------- *)

(* qtm_clone_file is called: the argument check *)
CallFile ==
  /\ pc = "idle"
  /\ \E sfd \in Pick({-1, VALID_SRC_FD}, "src_fd"),
        dfd \in Pick({-1, VALID_DST_FD}, "dst_fd"),
        fb \in Pick(BOOLEAN, "fallback_copy"),
        bs \in Pick(0..MaxBlock, "block_size") :
       /\ arg' = [NoArg EXCEPT !.op = "file", !.src_fd = sfd, !.dst_fd = dfd,
                               !.fallback_copy = fb, !.block_size = bs]
       /\ MayCall(arg')
       /\ IF qtm_clone_file_invalid(sfd, dfd, fb, bs)
          THEN /\ rc' = EINVAL
               /\ pc' = "done"
               /\ gh' = Snapshot
          ELSE /\ rc' = 0
               /\ pc' = "clone"
               /\ gh' = [Snapshot EXCEPT !.valid = TRUE]
  /\ UNCHANGED <<src, dst, srcPos, dstPos, errno, dc, tape, cpr>>

(* qtm_clone_file_range is called: the argument check *)
CallRange ==
  /\ pc = "idle"
  /\ \E sfd \in Pick({-1, VALID_SRC_FD}, "src_fd"),
        dfd \in Pick({-1, VALID_DST_FD}, "dst_fd"),
        so \in Pick(Offsets, "src_offset"), do \in Pick(Offsets, "dst_offset"),
        len \in Pick(0..MaxLen, "length"),
        fb \in Pick(BOOLEAN, "fallback_copy"),
        bs \in Pick(0..MaxBlock, "block_size") :
       /\ arg' = [op |-> "range", src_fd |-> sfd, dst_fd |-> dfd,
                  src_offset |-> so, dst_offset |-> do, length |-> len,
                  fallback_copy |-> fb, block_size |-> bs]
       /\ MayCall(arg')
       /\ IF qtm_clone_file_range_invalid(sfd, dfd, so, do, fb, bs)
          THEN /\ rc' = EINVAL
               /\ pc' = "done"
               /\ gh' = Snapshot
          ELSE /\ rc' = 0
               /\ pc' = "clone"
               /\ gh' = [Snapshot EXCEPT !.valid = TRUE]
  /\ UNCHANGED <<src, dst, srcPos, dstPos, errno, dc, tape, cpr>>

(* after the clone attempt: return its code or enter the deep copy *)
AfterClone(r, rAlt, e, eAlt, nerr, span) ==
  /\ MayClone(nerr)
  /\ rc' = r
  /\ errno' = e
  /\ gh' = [gh EXCEPT !.ioctl = @ + 1, !.first = First(gh, "ioctl"),
                      !.nativeErr = nerr, !.rcAlt = rAlt, !.errnoAlt = eAlt]
  /\ IF NeedsDeepCopy(r, arg.fallback_copy)
     THEN /\ pc' = "seek_src"
          /\ dc' = [NoDc EXCEPT !.src_offset = span.src_offset,
                                !.dst_offset = span.dst_offset,
                                !.length = span.length,
                                !.block_size = arg.block_size]
     ELSE /\ pc' = "done"
          /\ dc' = dc

OtherErr(e) == CHOOSE x \in NativeErrs : x # e

(* qtm_clone_file: the FICLONE attempt *)
CloneFile ==
  /\ pc = "clone"
  /\ arg.op = "file"
  /\ \/ /\ dst' = FicloneEffect(src, dst)
        /\ AfterClone(clone_file_impl(0, errno), clone_file_impl(0, errno),
                      errno, errno, 0, FileSpan(arg))
     \/ \E e \in NativeErrs :
          /\ dst' = dst
          /\ AfterClone(clone_file_impl(-1, e), clone_file_impl(-1, OtherErr(e)),
                        e, OtherErr(e), e, FileSpan(arg))
  /\ UNCHANGED <<src, srcPos, dstPos, arg, tape, cpr>>

(* qtm_clone_file_range: the FICLONERANGE attempt *)
CloneRange ==
  /\ pc = "clone"
  /\ arg.op = "range"
  /\ \/ /\ FicloneRangeOk(src, arg.src_offset, arg.length)
        /\ AfterClone(clone_file_range_impl(0, errno),
                      clone_file_range_impl(0, errno), errno, errno,
                      0, RangeSpan(arg))
        /\ dst' = FicloneRangeEffect(src, dst, arg.src_offset, arg.dst_offset,
                                     arg.length)
     \/ \E e \in NativeErrs :
          /\ dst' = dst
          /\ AfterClone(clone_file_range_impl(-1, e),
                        clone_file_range_impl(-1, OtherErr(e)),
                        e, OtherErr(e), e, RangeSpan(arg))
  /\ UNCHANGED <<src, srcPos, dstPos, arg, tape, cpr>>


(* ------------------------ deep_copy_file_range_impl -------------------- *)

(* variant: the loop is not left, the read is issued again *)
Break_retry(d, g) ==
  /\ pc' = "read"
  /\ dc' = d
  /\ gh' = g

(* variant: the loop is left without releasing the block *)
Break_leak(d, g) ==
  /\ pc' = "done"
  /\ dc' = d
  /\ gh' = g

(* leave the loop: free(p_block); return rc *)
Break(d, g) ==
  /\ pc' = "done"
  /\ dc' = [d EXCEPT !.heap = "freed"]
  /\ gh' = [g EXCEPT !.free = @ + 1]

(* variant: the loop is left when the read was interrupted *)
LoopHead_skip(d, g) ==
  IF d.remain > 0 /\ d.read_now >= 0
  THEN /\ pc' = "read"
       /\ dc' = d
       /\ gh' = g
  ELSE Break(d, g)

(* while (remain > 0) *)
LoopHead(d, g) ==
  IF d.remain > 0
  THEN /\ pc' = "read"
       /\ dc' = d
       /\ gh' = g
  ELSE Break(d, g)

(* rc = seek_file(src_fd, src_offset) *)
SeekSrc ==
  /\ pc = "seek_src"
  /\ \E ok \in BOOLEAN :
       LET ret  == IF ok THEN dc.src_offset ELSE MinusOne
           e    == IF ok THEN errno ELSE ESPIPE
           eAlt == IF ok THEN gh.errnoAlt ELSE ESPIPE
           r    == seek_file(ret, e)
       IN  /\ Outcome(IF ok THEN 1 ELSE FAILED)
           /\ srcPos' = IF ok THEN dc.src_offset ELSE srcPos
           /\ errno' = e
           /\ rc' = r
           /\ gh' = [gh EXCEPT !.lseek = @ + 1, !.first = First(gh, "lseek"),
                               !.seeks = IF ok THEN @ \cup {"src"} ELSE @,
                               !.sysErr = @ \/ ~ok,
                               !.failed = IF ok THEN @ ELSE "lseek",
                               !.failCode = IF ok THEN @ ELSE ESPIPE,
                               !.rcAlt = seek_file(ret, eAlt),
                               !.errnoAlt = eAlt]
           /\ pc' = IF r = 0 THEN "seek_dst" ELSE "done"
  /\ UNCHANGED <<src, dst, dstPos, arg, dc, cpr>>

(* rc = seek_file(dst_fd, dst_offset) *)
SeekDst ==
  /\ pc = "seek_dst"
  /\ \E ok \in BOOLEAN :
       LET ret  == IF ok THEN dc.dst_offset ELSE MinusOne
           e    == IF ok THEN errno ELSE ESPIPE
           eAlt == IF ok THEN gh.errnoAlt ELSE ESPIPE
           r    == seek_file(ret, e)
       IN  /\ Outcome(IF ok THEN 1 ELSE FAILED)
           /\ dstPos' = IF ok THEN dc.dst_offset ELSE dstPos
           /\ errno' = e
           /\ rc' = r
           /\ gh' = [gh EXCEPT !.lseek = @ + 1, !.first = First(gh, "lseek"),
                               !.seeks = IF ok THEN @ \cup {"dst"} ELSE @,
                               !.sysErr = @ \/ ~ok,
                               !.failed = IF ok THEN @ ELSE "lseek",
                               !.failCode = IF ok THEN @ ELSE ESPIPE,
                               !.rcAlt = seek_file(ret, eAlt),
                               !.errnoAlt = eAlt]
           /\ pc' = IF r = 0 THEN "malloc" ELSE "done"
  /\ UNCHANGED <<src, dst, srcPos, arg, dc, cpr>>

(* p_block = malloc(block_size); remain = ...; the first loop test *)
Malloc ==
  /\ pc = "malloc"
  /\ \/ /\ LoopHead([dc EXCEPT !.heap = "live",
                               !.block = <<>>,
                               !.remain = InitRemain(dc.length, dc.block_size)],
                    [gh EXCEPT !.malloc = @ + 1, !.first = First(gh, "malloc")])
        /\ Outcome(1)
        /\ UNCHANGED <<rc, errno>>
     \/ /\ pc' = "done"
        /\ Outcome(FAILED)
        /\ rc' = ENOMEM
        /\ errno' = ENOMEM
        /\ dc' = dc
        /\ gh' = [gh EXCEPT !.malloc = @ + 1, !.first = First(gh, "malloc"),
                            !.sysErr = TRUE, !.rcAlt = ENOMEM,
                            !.errnoAlt = ENOMEM, !.failed = "malloc",
                            !.failCode = ENOMEM]
  /\ UNCHANGED <<src, dst, srcPos, dstPos, arg, cpr>>

(* read_now = read(src_fd, p_block, MIN(block_size, remain)) and its branches *)
Read ==
  /\ pc = "read"
  /\ LET read_max == MIN(dc.block_size, dc.remain)
         g == [gh EXCEPT !.read = @ + 1, !.first = First(gh, "read")]
     IN
     \/ /\ gh.intr < MaxIntr
        /\ Outcome(INTERRUPTED)
        /\ errno' = EINTR
        /\ LoopHead([dc EXCEPT !.read_max = read_max, !.read_now = -1],
                    [g EXCEPT !.intr = @ + 1, !.errnoAlt = EINTR])
        /\ UNCHANGED <<rc, srcPos>>
     \/ /\ Outcome(FAILED)
        /\ errno' = EIO
        /\ rc' = EIO
        /\ Break([dc EXCEPT !.read_max = read_max, !.read_now = -1],
                 [g EXCEPT !.sysErr = TRUE, !.errnoAlt = EIO, !.rcAlt = EIO,
                           !.failed = "read", !.failCode = EIO])
        /\ UNCHANGED srcPos
     \/ \E n \in 0..Avail(src, srcPos, read_max) :
          LET avail == Avail(src, srcPos, read_max)
              d == [dc EXCEPT !.read_max = read_max, !.read_now = n,
                              !.block = FillBlock(@, ReadBytes(src, srcPos, n))]
              g2 == [g EXCEPT !.nread = @ + n,
                              !.shortio = @ \/ (n < avail)]
              class == ReadClass(n, dc.length, dc.remain)
          IN  /\ IF avail = 0 THEN n = 0 ELSE n \in 1..avail
              /\ Outcome(n)
              /\ srcPos' = OffAdd(srcPos, n)
              /\ errno' = errno
              /\ CASE class = "eof" ->
                        /\ rc' = rc
                        /\ Break(d, g2)
                   [] class = "erange" ->
                        /\ rc' = ERANGE
                        /\ Break(d, [g2 EXCEPT !.rcAlt = ERANGE])
                   [] OTHER ->
                        /\ rc' = rc
                        /\ pc' = "write"
                        /\ dc' = [d EXCEPT !.wb_p = 0, !.wb_length = n]
                        /\ gh' = [g2 EXCEPT !.wbAccepted = 0, !.wbDst = dstPos]
  /\ UNCHANGED <<src, dst, dstPos, arg, cpr>>

(* write_block: one write() of its loop, and the return into the copy loop *)
Write ==
  /\ pc = "write"
  /\ dc.wb_length > 0
  /\ LET g == [gh EXCEPT !.write = @ + 1, !.first = First(gh, "write")]
         handed == WbChunk(dc.block, dc.wb_p, dc.wb_length)
     IN
     \/ /\ gh.intr < MaxIntr
        /\ Outcome(INTERRUPTED)
        /\ errno' = EINTR
        /\ pc' = "write"
        /\ dc' = dc
        /\ gh' = [g EXCEPT !.intr = @ + 1, !.errnoAlt = EINTR]
        /\ UNCHANGED <<rc, dst, dstPos>>
     \/ /\ Outcome(FAILED)
        /\ errno' = ENOSPC
        /\ rc' = ENOSPC
        /\ Break(dc, [g EXCEPT !.sysErr = TRUE, !.errnoAlt = ENOSPC,
                               !.rcAlt = ENOSPC, !.failed = "write",
                               !.failCode = ENOSPC])
        /\ UNCHANGED <<dst, dstPos>>
     \/ \E n \in 1..dc.wb_length :
          LET d == [dc EXCEPT !.wb_p = WbAdvance(@, n),
                              !.wb_length = WbRemaining(@, n)]
              g2 == [g EXCEPT !.written = @ + n, !.wbAccepted = @ + n,
                              !.shortio = @ \/ (n < dc.wb_length)]
          IN  /\ Outcome(n)
              /\ dst' = WriteBytes(dst, dstPos, SubSeq(handed, 1, n))
              /\ dstPos' = OffAdd(dstPos, n)
              /\ errno' = errno
              /\ IF d.wb_length > 0
                 THEN /\ pc' = "write"
                      /\ dc' = d
                      /\ gh' = g2
                      /\ rc' = rc
                 ELSE /\ rc' = 0
                      /\ LoopHead([d EXCEPT !.remain =
                                     NextRemain(dc.length, dc.remain, dc.read_now)],
                                  [g2 EXCEPT !.rcAlt = 0])
  /\ UNCHANGED <<src, srcPos, arg, cpr>>

(* a second run on the files, positions and errno the first run was called
   with; the first run's return code and destination are kept to compare *)
Restart(mode, replay) ==
  /\ pc = "done"
  /\ tape.mode = "first"
  /\ gh.lseek > 0
  /\ tape' = [mode |-> mode, log |-> <<>>, replay |-> replay,
              prev |-> [rc |-> rc, dst |-> dst, arg |-> arg,
                        nativeErr |-> gh.nativeErr]]
  /\ dst' = gh.dst0
  /\ srcPos' = gh.srcPos0
  /\ dstPos' = gh.dstPos0
  /\ errno' = 0
  /\ pc' = "idle"
  /\ arg' = NoArg
  /\ dc' = NoDc
  /\ rc' = 0
  /\ gh' = NoGh
  /\ UNCHANGED <<src, cpr>>

(* the same call again, with the same outcomes but no call interrupted *)
Rerun ==
  /\ gh.intr > 0
  /\ Restart("rerun", SelectSeq(tape.log, LAMBDA o : o # INTERRUPTED))

(* qtm_clone_file_range(0, 0, 0) in place of qtm_clone_file, same outcomes *)
Emulate ==
  /\ arg.op = "file"
  /\ Restart("emulate", tape.log)

(* ------------------------------ cpr: main ------------------------------ *)

(* parse_options: the flags and values of the command line; any of -s, -d,
   -l selects the range mode; fewer than two file names end in the usage;
   the attribute flags -a, -o, -t, -p are left at their default *)
ParseOptions ==
  /\ cpr.step = "parse"
  /\ \E c \in BOOLEAN, f \in BOOLEAN, names \in {1, 2},
        s \in {<<FALSE, Off(0)>>} \cup {<<TRUE, o>> : o \in CprOffsets},
        d \in {<<FALSE, Off(0)>>} \cup {<<TRUE, o>> : o \in CprOffsets},
        l \in {<<FALSE, 0>>} \cup {<<TRUE, n>> : n \in CprLengths} :
       IF names < 2
       THEN /\ ~c /\ ~f /\ ~s[1] /\ ~d[1] /\ ~l[1]
            /\ cpr' = [cpr EXCEPT !.step = "exit", !.status = EXIT_FAILURE]
       ELSE cpr' = [cpr EXCEPT
                      !.step = "open",
                      !.fallback_copy = c,
                      !.force = f,
                      !.clone_mode = IF s[1] \/ d[1] \/ l[1] THEN "range" ELSE "file",
                      !.src_offset = s[2],
                      !.dst_offset = d[2],
                      !.src_length = l[2]]
  /\ UNCHANGED <<src, dst, srcPos, dstPos, errno, pc, arg, dc, rc, gh, tape>>

(* open_files: SRC_FILE read-only, then DST_FILE, created if missing,
   exclusively in whole-file mode, and opened again truncating when that
   failed with EEXIST and -f was given *)
OpenFiles ==
  /\ cpr.step = "open"
  /\ \E srcOk \in BOOLEAN, dstOk \in BOOLEAN, truncOk \in BOOLEAN :
       LET flags  == OpenFlags(cpr.clone_mode)
           e1     == OpenErrno(cpr.dst_exists, flags, dstOk)
           again  == e1 = EEXIST /\ cpr.force
           e2     == IF again THEN OpenErrno(cpr.dst_exists, ForceFlags, truncOk)
                     ELSE e1
           used   == IF again THEN ForceFlags ELSE flags
           opened == srcOk /\ e2 = 0
           r      == IF ~srcOk THEN ENOENT ELSE e2
       IN  /\ ~srcOk => (dstOk /\ truncOk)
           /\ (srcOk /\ ~again) => truncOk
           /\ cpr' = [cpr EXCEPT
                        !.src_fd = IF srcOk THEN VALID_SRC_FD ELSE -1,
                        !.dst_fd = IF opened THEN VALID_DST_FD ELSE -1,
                        !.rc = r,
                        !.dst_exists = @ \/ opened,
                        !.truncated = opened /\ cpr.dst_exists /\ "O_TRUNC" \in used,
                        !.opened = (IF srcOk THEN {VALID_SRC_FD} ELSE {}) \cup
                                   (IF opened THEN {VALID_DST_FD} ELSE {}),
                        !.ran = Append(@, [step |-> "open", ret |-> r]),
                        !.step = IF r = 0 THEN "clone" ELSE "preserve"]
           /\ dst' = IF opened THEN OpenEffect(dst, cpr.dst_exists, used) ELSE dst
           /\ errno' = IF ~srcOk THEN ENOENT
                       ELSE IF e2 # 0 THEN e2
                       ELSE IF again THEN EEXIST
                       ELSE errno
  /\ srcPos' = Off(0)
  /\ dstPos' = Off(0)
  /\ UNCHANGED <<src, pc, arg, dc, rc, gh, tape>>

(* main: if (rc == 0) rc = preserve_file_attrs(&operation), after the clone
   returned or was skipped *)
PreserveFileAttrs ==
  /\ cpr.step = "preserve" \/ (cpr.step = "clone" /\ pc = "done")
  /\ \E ok \in BOOLEAN :
       LET r == IF cpr.step = "clone" THEN rc ELSE cpr.rc
           ret == IF ok THEN 0 ELSE EPERM
           cloned == IF cpr.step = "clone"
                     THEN Append(cpr.ran, [step |-> "clone", ret |-> rc])
                     ELSE cpr.ran
       IN  /\ (r # 0) => ok
           /\ cpr' = [cpr EXCEPT !.step = "fsync",
                                 !.rc = IF r # 0 THEN r ELSE ret,
                                 !.ran = IF r # 0 THEN cloned
                                         ELSE Append(cloned, [step |-> "preserve",
                                                              ret |-> ret])]
           /\ errno' = IF ok THEN errno ELSE EPERM
  /\ UNCHANGED <<src, dst, srcPos, dstPos, pc, arg, dc, rc, gh, tape>>

(* main: if (rc == 0) rc = fsync(dst_fd), errno on failure *)
Fsync ==
  /\ cpr.step = "fsync"
  /\ \E ok \in BOOLEAN :
       /\ (cpr.rc # 0) => ok
       /\ cpr' = [cpr EXCEPT !.step = "close",
                             !.rc = IF cpr.rc # 0 THEN @ ELSE IF ok THEN 0 ELSE EIO,
                             !.ran = IF cpr.rc # 0 THEN @
                                     ELSE Append(@, [step |-> "fsync",
                                                     ret |-> IF ok THEN 0 ELSE EIO])]
       /\ errno' = IF ok THEN errno ELSE EIO
  /\ UNCHANGED <<src, dst, srcPos, dstPos, pc, arg, dc, rc, gh, tape>>

(* main: close_files, and the exit status *)
CloseFiles ==
  /\ cpr.step = "close"
  /\ \E ret1 \in {0, -1}, ret2 \in {0, -1} :
       /\ (cpr.src_fd < 0) => ret1 = 0
       /\ (cpr.dst_fd < 0) => ret2 = 0
       /\ cpr' = [cpr EXCEPT
                    !.step = "exit",
                    !.closed = {fd \in {cpr.src_fd, cpr.dst_fd} : fd >= 0},
                    !.ran = Append(@, [step |-> "close",
                                       ret |-> close_files(cpr.src_fd, cpr.dst_fd,
                                                           ret1, ret2)]),
                    !.status = ExitStatus(cpr.rc, close_files(cpr.src_fd,
                                                  cpr.dst_fd, ret1, ret2))]
       /\ errno' = IF ret1 = 0 /\ ret2 = 0 THEN errno ELSE EIO
  /\ UNCHANGED <<src, dst, srcPos, dstPos, pc, arg, dc, rc, gh, tape>>

Next ==
  \/ CallFile
  \/ CallRange
  \/ CloneFile
  \/ CloneRange
  \/ SeekSrc
  \/ SeekDst
  \/ Malloc
  \/ Read
  \/ Write

Spec == Init /\ [][Next]_vars

(* a call keeps running: every system call returns and the next statement
   is executed *)
InitLive ==
  /\ InitLib
  /\ dst.size = Off(MaxDstLen)
  /\ srcPos = Off(1)
  /\ tape = NoTape
  /\ cpr = NoCpr

SpecLive == InitLive /\ [][Next]_vars /\ WF_vars(Next)

(* the cpr program: DST_FILE exists with some content or is missing *)
InitCpr ==
  /\ src \in {MkFile(SrcPattern(k)) : k \in 0..MaxSrcLen}
  /\ dst \in {MkFile(s) : s \in SeqsUpTo(DstBytes, MaxDstLen)}
  /\ \E exists \in BOOLEAN :
       /\ dst.size = IF exists THEN Off(MaxDstLen) ELSE Off(0)
       /\ cpr = [NoCpr EXCEPT !.step = "parse", !.dst_exists = exists,
                              !.existed = exists, !.dst0 = dst]
  /\ srcPos = Off(0)
  /\ dstPos = Off(0)
  /\ errno = 0
  /\ pc = "idle"
  /\ arg = NoArg
  /\ dc = NoDc
  /\ rc = 0
  /\ gh = NoGh
  /\ tape = NoTape

NextCpr ==
  \/ ParseOptions
  \/ OpenFiles
  \/ CallFile
  \/ CallRange
  \/ CloneFile
  \/ CloneRange
  \/ SeekSrc
  \/ SeekDst
  \/ Malloc
  \/ Read
  \/ Write
  \/ PreserveFileAttrs
  \/ Fsync
  \/ CloseFiles

SpecCpr == InitCpr /\ [][NextCpr]_vars

(* a call made against a script: the outcome of each system call of the
   deep copy is given, here for a source of 10,000 bytes copied in blocks
   of 8192; the scripts are the run without short reads, short writes or
   interruptions, and that run with one outcome replaced *)
ScenarioLen == 10000

ScenarioScript ==
  <<1, 1, 1, CprBlockSize, CprBlockSize, ScenarioLen - CprBlockSize,
    ScenarioLen - CprBlockSize, 0>>

ScenarioOutcomes == {INTERRUPTED, FAILED, 1}

ScenarioScripts ==
  {ScenarioScript} \cup
  {[ScenarioScript EXCEPT ![i] = o] :
     i \in 1..Len(ScenarioScript), o \in ScenarioOutcomes}

ScenarioArgs ==
  LET a == [NoArg EXCEPT !.src_fd = VALID_SRC_FD, !.dst_fd = VALID_DST_FD,
                         !.fallback_copy = TRUE, !.block_size = CprBlockSize]
  IN  {[a EXCEPT !.op = "file"], [a EXCEPT !.op = "range"]}

InitScenario ==
  /\ src = MkFile(SrcPattern(ScenarioLen))
  /\ dst \in {MkFile(<<>>), MkFile([i \in 1..MaxDstLen |-> 99])}
  /\ srcPos = Off(0)
  /\ dstPos = Off(0)
  /\ errno = 0
  /\ pc = "idle"
  /\ arg = NoArg
  /\ dc = NoDc
  /\ rc = 0
  /\ gh = NoGh
  /\ \E a \in ScenarioArgs, e \in {0, EXDEV}, script \in ScenarioScripts :
       /\ (e = 0) => (script = ScenarioScript)
       /\ tape = [mode |-> "rerun", log |-> <<>>, replay |-> script,
               prev |-> [rc |-> 0, dst |-> MkFile(<<>>), arg |-> a,
                         nativeErr |-> e]]
  /\ cpr = NoCpr

SpecScenario == InitScenario /\ [][Next]_vars

(* the calls followed by a second run to compare with *)
InitEmu ==
  /\ InitLib
  /\ dst.size = Off(MaxDstLen)
  /\ srcPos = Off(1)
  /\ tape = [NoTape EXCEPT !.mode = "first"]
  /\ cpr = NoCpr

NextEmu ==
  \/ CallFile
  \/ CallRange
  \/ CloneFile
  \/ CloneRange
  \/ SeekSrc
  \/ SeekDst
  \/ Malloc
  \/ Read
  \/ Write
  \/ Rerun
  \/ Emulate

SpecEmu == InitEmu /\ [][NextEmu]_vars


(* ======================= properties of the library ===================== *)

Done == pc = "done"

(* the deep copy has been entered *)
Entered == pc \in {"seek_src", "seek_dst", "malloc", "read", "write"} \/ gh.lseek > 0

(* the span the operation is asked to copy, from its arguments *)
AskedSrc == IF arg.op = "file" THEN Off(0) ELSE arg.src_offset

AskedDst == IF arg.op = "file" THEN Off(0) ELSE arg.dst_offset

AskedLen == IF arg.op = "file" THEN 0 ELSE arg.length

(* n bytes of g at go are the n bytes of f at fo, all of them inside f *)
RangeEq(g, go, f, fo, n) ==
  \A i \in 0..(n - 1) :
    /\ ByteAt(f, OffAdd(fo, i)) # NoByte
    /\ ByteAt(g, OffAdd(go, i)) = ByteAt(f, OffAdd(fo, i))

NoDeepIO == gh.lseek = 0 /\ gh.malloc = 0 /\ gh.read = 0 /\ gh.write = 0

(* C1: whenever the deep copy ran and the operation returns 0, the N bytes
   of the destination at dst_offset equal the N bytes of the source at
   src_offset, N being length, or the bytes up to the source end when
   length is 0; for every block size and every interleaving of short reads,
   short writes and interrupted calls. *)
C1_DeepCopyByteExact ==
  (Done /\ Entered /\ rc = 0) =>
    RangeEq(dst, AskedDst, gh.src0, AskedSrc,
            SpanBytes(gh.src0, AskedSrc, AskedLen))

(* a deep copy of 3 bytes in blocks of 2 (the last one partial) that saw a
   short transfer and an interrupted call, and returned 0 *)
C1_Witness ==
  /\ Done /\ Entered /\ rc = 0
  /\ SpanBytes(gh.src0, AskedSrc, AskedLen) = 3
  /\ arg.block_size = 2
  /\ gh.shortio
  /\ gh.intr > 0

(* C2: with fallback_copy false, a clone attempt that fails with code E
   makes the operation return exactly E, without lseek, read, write or
   malloc, and without a byte of the destination changed. *)
C2_NoFallbackReturnsNativeError ==
  (gh.valid /\ pc # "clone" /\ ~arg.fallback_copy /\ gh.nativeErr # 0) =>
    /\ Done
    /\ rc = gh.nativeErr
    /\ NoDeepIO
    /\ dst = gh.dst0

C2_Witness ==
  /\ Done /\ arg.op = "range" /\ ~arg.fallback_copy
  /\ gh.nativeErr = EOPNOTSUPP /\ rc = EOPNOTSUPP

(* C3: a call that passes validation attempts the clone exactly once and
   before any seek, read or write; the deep copy is entered exactly when
   that attempt failed and fallback_copy is set (a successful clone
   returns 0 without deep-copy I/O); and the deep copy gets the span
   (0, 0, 0) from the whole-file operation and the caller's span from the
   range operation. *)
C3_CloneFirstThenFallback ==
  /\ (pc = "clone") => (gh.valid /\ gh.ioctl = 0 /\ NoDeepIO)
  /\ (gh.valid /\ pc # "clone") =>
       /\ gh.ioctl = 1
       /\ gh.first = "ioctl"
       /\ Entered <=> (gh.nativeErr # 0 /\ arg.fallback_copy)
       /\ (gh.nativeErr = 0) => (Done /\ rc = 0 /\ NoDeepIO)
  /\ Entered =>
       /\ dc.src_offset = AskedSrc
       /\ dc.dst_offset = AskedDst
       /\ dc.length = AskedLen
       /\ dc.block_size = arg.block_size

C3_Witness ==
  /\ Done /\ Entered /\ arg.op = "range"
  /\ arg.src_offset = Off(1) /\ arg.dst_offset = Off(0) /\ arg.length = 2
  /\ gh.read > 0


(* the positions of the two handles are those at call time *)
PositionsKept == srcPos = gh.srcPos0 /\ dstPos = gh.dstPos0

(* C4 as claimed: a fixed-length request served by the deep copy whose
   span runs past the source end never returns 0 and, unless a system
   call of the deep copy failed, returns ERANGE. *)
C4_PrematureEofIsErange ==
  (Done /\ Entered /\ AskedLen > 0
        /\ Avail(gh.src0, AskedSrc, AskedLen) < AskedLen) =>
    /\ rc # 0
    /\ ~gh.sysErr => rc = ERANGE

(* C5: validation precedes all I/O: a negative handle, a negative offset
   of the range operation, or fallback_copy with a zero block size returns
   EINVAL without ioctl, lseek, read, write or malloc, leaving both files
   and both handles as they were. *)
C5_ValidationBeforeIO ==
  (arg.op # "none" /\
     (\/ arg.src_fd < 0
      \/ arg.dst_fd < 0
      \/ (arg.op = "range" /\ (OffNeg(arg.src_offset) \/ OffNeg(arg.dst_offset)))
      \/ (arg.fallback_copy /\ arg.block_size = 0))) =>
    /\ Done
    /\ rc = EINVAL
    /\ gh.ioctl = 0
    /\ NoDeepIO
    /\ src = gh.src0 /\ dst = gh.dst0
    /\ PositionsKept

C5_Witness ==
  /\ Done /\ rc = EINVAL /\ arg.op = "range"
  /\ arg.src_fd >= 0 /\ arg.dst_fd >= 0
  /\ ~OffNeg(arg.src_offset) /\ OffNeg(arg.dst_offset)
  /\ ~arg.fallback_copy

(* every byte the destination had before the call and that lies outside
   [do, do + n) is unchanged, and the destination ends where it ended
   before or where the range ends, whichever is later *)
FrameOutside(do, n) ==
  /\ dst.size = OffMax(gh.dst0.size, OffAdd(do, n))
  /\ \A p \in (DOMAIN dst.data) \cup (DOMAIN gh.dst0.data) :
       (OffLess(p, do) \/ ~OffLess(p, OffAdd(do, n))) =>
         (p \in DOMAIN gh.dst0.data /\ ByteAt(dst, p) = ByteAt(gh.dst0, p))

(* C6: a range request with length > 0 inside the source that returns 0
   has copied exactly length bytes to [dst_offset, dst_offset + length),
   and every destination byte outside that range is as before. *)
C6_RangeExactAndFramed ==
  (Done /\ arg.op = "range" /\ arg.length > 0 /\ rc = 0
        /\ Avail(gh.src0, arg.src_offset, arg.length) = arg.length) =>
    /\ RangeEq(dst, arg.dst_offset, gh.src0, arg.src_offset, arg.length)
    /\ FrameOutside(arg.dst_offset, arg.length)
    /\ Entered => (gh.written = arg.length /\ gh.nread = arg.length)

(* a deep copy of one byte into the middle of a three-byte destination *)
C6_Witness ==
  /\ Done /\ arg.op = "range" /\ rc = 0 /\ Entered
  /\ arg.length = 1 /\ arg.dst_offset = Off(1) /\ arg.src_offset = Off(1)
  /\ gh.dst0.size = Off(3) /\ gh.src0.size = Off(3)
  /\ arg.block_size = 2


(* C7 as claimed: a range clone with length 0 that returns 0 through the
   deep copy has copied source_size - src_offset bytes, for every
   src_offset the validation accepts: src_offset plus the bytes copied is
   the source size. *)
C7_CopiedIsSizeMinusOffset ==
  (Done /\ arg.op = "range" /\ arg.length = 0 /\ rc = 0 /\ Entered) =>
    OffAdd(arg.src_offset, gh.written) = gh.src0.size

(* C7 amended: a range clone with length 0 that returns 0 has copied the
   source from src_offset to its end, and the number of bytes copied is
   source_size - src_offset when src_offset is inside the source and 0
   when src_offset is at or beyond the source end. *)
C7_CopiesToEof ==
  (Done /\ arg.op = "range" /\ arg.length = 0 /\ rc = 0) =>
    LET n == ToEof(gh.src0, arg.src_offset)
    IN  /\ RangeEq(dst, arg.dst_offset, gh.src0, arg.src_offset, n)
        /\ OffLess(arg.src_offset, gh.src0.size) =>
             OffAdd(arg.src_offset, n) = gh.src0.size
        /\ ~OffLess(arg.src_offset, gh.src0.size) => n = 0
        /\ Entered => (gh.written = n /\ gh.nread = n)

(* a deep copy to the source end of the two bytes after offset 1 *)
C7_Witness ==
  /\ Done /\ arg.op = "range" /\ arg.length = 0 /\ rc = 0 /\ Entered
  /\ arg.src_offset = Off(1) /\ gh.src0.size = Off(3)
  /\ gh.written = 2
  /\ arg.block_size = 1

(* the two files have the same length and the same bytes *)
SameContent(f, g) ==
  /\ f.size = g.size
  /\ \A p \in (DOMAIN f.data) \cup (DOMAIN g.data) : ByteAt(f, p) = ByteAt(g, p)

(* C8 as claimed: when qtm_clone_file returns 0 the destination's whole
   content, length and bytes, equals the source's, whatever the
   destination held before the call. *)
C8_WholeFileCloneEqualsSource ==
  (Done /\ arg.op = "file" /\ rc = 0) => SameContent(dst, gh.src0)

(* C9 as claimed: with fallback_copy set, the value returned after a
   failed clone attempt does not depend on the code the attempt failed
   with: the companion call, which differs only in that code and sees the
   same outcome of every deep-copy step, returns the same value. *)
C9_NativeErrorNeverSeen ==
  (Done /\ arg.fallback_copy /\ gh.nativeErr # 0) => rc = gh.rcAlt

(* C10 as claimed: after any call the source's contents and the file
   positions of both handles are what they were before the call. *)
C10_NoSideEffectButDestination ==
  Done => (src = gh.src0 /\ PositionsKept)

(* C10 amended: no call changes the source's contents; a call that does
   not enter the deep copy (validation failure, successful clone, or
   fallback_copy false) leaves both file positions as they were; the deep
   copy moves them: a handle whose lseek succeeded stands at its offset
   plus the bytes read or written, the other where it stood. *)
C10_SourceKeptPositionsMoveOnlyInDeepCopy ==
  Done =>
    /\ src = gh.src0
    /\ ~(gh.valid /\ gh.nativeErr # 0 /\ arg.fallback_copy) => PositionsKept
    /\ srcPos = IF "src" \in gh.seeks THEN OffAdd(AskedSrc, gh.nread)
                                      ELSE gh.srcPos0
    /\ dstPos = IF "dst" \in gh.seeks THEN OffAdd(AskedDst, gh.written)
                                      ELSE gh.dstPos0

(* a deep copy that moved both handles away from where they stood *)
C10_Witness ==
  /\ Done /\ Entered /\ rc = 0
  /\ gh.srcPos0 = Off(1) /\ gh.dstPos0 = Off(1)
  /\ srcPos = Off(3) /\ dstPos = Off(2)
  /\ src = gh.src0

(* C11: with fallback_copy false the block size is ignored: for valid
   handles and offsets every block size, 0 included, passes validation,
   and the call returns exactly the result of the one native clone
   attempt, with no deep-copy system call. *)
C11_BlockSizeIgnoredWithoutFallback ==
  (/\ pc # "idle" /\ ~arg.fallback_copy
   /\ arg.src_fd >= 0 /\ arg.dst_fd >= 0
   /\ ~OffNeg(arg.src_offset) /\ ~OffNeg(arg.dst_offset)) =>
    /\ gh.valid
    /\ pc \in {"clone", "done"}
    /\ Done => (gh.ioctl = 1 /\ rc = gh.nativeErr /\ NoDeepIO)

C11_Witness ==
  /\ Done /\ arg.op = "file" /\ ~arg.fallback_copy /\ arg.block_size = 0
  /\ gh.valid /\ gh.ioctl = 1 /\ rc = 0 /\ gh.nativeErr = 0

(* the bytes of the block that write_block was asked to write, as the
   destination holds them from the position write_block started at *)
WbOnDisk(f, g, d, n) ==
  \A i \in 1..n : ByteAt(f, OffAdd(g.wbDst, i - 1)) = BlockAt(d.block, i)

(* C15: write_block returns 0 only when the accepted counts of its write
   calls sum to the requested length; every partial write continues at the
   first unwritten byte, so the accepted bytes lie on the destination in
   order, none skipped or written twice; an interrupted write is retried
   with pointer and remaining length unchanged; the first error other than
   EINTR is returned and no further write is made. *)
C15_WriteBlockStep ==
  (pc = "write") =>
    /\ dc.wb_length > 0
    /\ gh.wbAccepted < dc.read_now
    /\ dc.wb_p = gh.wbAccepted
    /\ dc.wb_p + dc.wb_length = dc.read_now
    /\ dstPos = OffAdd(gh.wbDst, gh.wbAccepted)
    /\ WbOnDisk(dst, gh, dc, gh.wbAccepted)
    /\ gh'.write = gh.write + 1
    /\ (gh'.intr > gh.intr) =>
         /\ pc' = "write" /\ dc' = dc
         /\ dst' = dst /\ dstPos' = dstPos /\ rc' = rc
    /\ (gh'.failed # "none") =>
         /\ gh'.failed = "write" /\ pc' = "done"
         /\ rc' = gh'.failCode /\ rc' = errno' /\ rc' # 0 /\ rc' # EINTR
         /\ dst' = dst /\ dstPos' = dstPos
    /\ (gh'.intr = gh.intr /\ gh'.failed = "none") =>
         /\ gh'.wbAccepted > gh.wbAccepted
         /\ gh'.wbAccepted <= dc.read_now
         /\ WbOnDisk(dst', gh', dc, gh'.wbAccepted)
         /\ dstPos' = OffAdd(gh.wbDst, gh'.wbAccepted)
         /\ (pc' # "write") <=> (gh'.wbAccepted = dc.read_now)
         /\ (pc' # "write") => rc' = 0

C15_WriteBlock == [][C15_WriteBlockStep]_vars

(* a write_block call that returned 0 after a partial write *)
C15_Witness ==
  /\ pc = "read" /\ gh.write >= 2 /\ gh.wbAccepted = 2 /\ dc.read_now = 2
  /\ gh.intr > 0 /\ rc = 0

IoFailed(g) == g.failed \in {"read", "write"}

(* C16: a read or write error other than EINTR ends the call: the step in
   which it happens returns its code, which is neither 0 nor EINTR, and
   from then on no read or write is issued and the code is not replaced. *)
C16_IoErrorStep ==
  /\ IoFailed(gh') =>
       /\ pc' = "done"
       /\ rc' = gh'.failCode /\ rc' # 0 /\ rc' # EINTR
  /\ IoFailed(gh) =>
       /\ gh'.read = gh.read /\ gh'.write = gh.write
       /\ rc' = rc /\ dst' = dst

C16_IoErrorsAreFatal == [][C16_IoErrorStep]_vars

(* a write error after a block was already copied and a call interrupted *)
C16_Witness ==
  /\ Done /\ gh.failed = "write" /\ rc = ENOSPC
  /\ gh.written > 0 /\ gh.intr > 0

(* C17: a failure before the copy loop ends the deep copy with no byte read
   or written: the source is sought first and the destination only after
   the source seek succeeded; a failed lseek returns its errno and no
   buffer is allocated; a failed malloc returns ENOMEM. *)
C17_FailureBeforeLoop ==
  /\ gh.lseek <= 2
  /\ (gh.lseek = 1) => (gh.seeks \subseteq {"src"})
  /\ (gh.lseek = 2) => ("src" \in gh.seeks)
  /\ (pc = "seek_dst") => (gh.lseek = 1 /\ gh.seeks = {"src"})
  /\ (gh.failed = "lseek") =>
       /\ Done /\ rc = gh.failCode /\ rc = ESPIPE
       /\ gh.malloc = 0 /\ dc.heap = "none"
       /\ gh.read = 0 /\ gh.write = 0 /\ dst = gh.dst0
  /\ (gh.failed = "malloc") =>
       /\ Done /\ rc = ENOMEM
       /\ gh.seeks = {"src", "dst"} /\ gh.malloc = 1
       /\ gh.read = 0 /\ gh.write = 0 /\ dst = gh.dst0

(* the destination seek fails after the source seek succeeded *)
C17_Witness ==
  /\ Done /\ gh.failed = "lseek" /\ gh.lseek = 2 /\ gh.seeks = {"src"}
  /\ rc = ESPIPE /\ arg.op = "range" /\ gh.nativeErr = EXDEV

Allocated(g) == g.malloc = 1 /\ g.failed # "malloc"

(* C18: the block buffer belongs to one deep copy: malloc is called at most
   once per call, and only after validation, a failed clone attempt with
   fallback asked, and two successful seeks; the buffer is released
   exactly once before the call returns on every path, so none is
   outstanding once a public operation has returned. *)
C18_BufferScoped ==
  /\ gh.malloc <= 1 /\ gh.free <= 1
  /\ (gh.malloc = 1) =>
       /\ gh.valid /\ gh.ioctl = 1 /\ gh.nativeErr # 0 /\ arg.fallback_copy
       /\ gh.lseek = 2 /\ gh.seeks = {"src", "dst"}
  /\ (dc.heap = "live") <=> (Allocated(gh) /\ gh.free = 0)
  /\ (dc.heap = "live") => (pc \in {"read", "write"})
  /\ (dc.heap = "freed") <=> (gh.free = 1)
  /\ (gh.free = 1) => (Allocated(gh) /\ Done)
  /\ (Done \/ pc = "idle") => (dc.heap # "live")
  /\ (Done /\ Allocated(gh)) => (gh.free = 1)

(* the buffer was released on the ERANGE path *)
C18_Witness ==
  /\ Done /\ rc = ERANGE /\ Allocated(gh) /\ gh.free = 1 /\ dc.heap = "freed"
  /\ gh.written > 0

(* C19: seek_file returns 0 whenever lseek succeeds and a non-zero errno
   only when lseek fails, for every offset: a deep copy that returns
   after its seeks and before allocating the buffer has had an lseek fail,
   and returns that lseek's errno. *)
C19_SeekFileZeroIffLseekOk ==
  (Done /\ gh.lseek >= 1 /\ gh.malloc = 0) =>
    (gh.failed = "lseek" /\ rc = gh.failCode)

InDeepCopy == pc \in {"seek_src", "seek_dst", "malloc", "read", "write"}

(* a second run meets the outcomes of the first, one per system call, and
   ends with the first run's return code and destination *)
SecondRunAgrees(mode) ==
  (tape.mode = mode) =>
    /\ InDeepCopy => tape.replay # <<>>
    /\ Done => /\ tape.replay = <<>>
               /\ rc = tape.prev.rc
               /\ dst = tape.prev.dst

(* C14: an interrupted read is retried with the same maximum size: the
   step leaves remain, both files and both positions as they were and
   returns to the read; and a run with interrupted calls ends with the
   return code and destination of the run with the same outcomes and no
   interruption. *)
C14_InterruptedReadStep ==
  /\ (pc = "read" /\ gh'.intr > gh.intr) =>
       /\ pc' = "read"
       /\ dc'.remain = dc.remain /\ dc'.block_size = dc.block_size
       /\ dc'.read_max = MIN(dc'.block_size, dc'.remain)
       /\ dst' = dst /\ dstPos' = dstPos /\ srcPos' = srcPos
       /\ gh'.nread = gh.nread /\ gh'.write = gh.write /\ rc' = rc
  /\ SecondRunAgrees("rerun")'

C14_InterruptedReadRetried == [][C14_InterruptedReadStep]_vars

(* the run without interruptions has ended, having copied in short steps *)
C14_Witness ==
  /\ tape.mode = "rerun" /\ Done /\ rc = 0 /\ gh.intr = 0
  /\ gh.written >= 2 /\ gh.shortio /\ tape.replay = <<>>

(* C12: qtm_clone_file_range with offsets 0, 0 and length 0 emulates
   qtm_clone_file: when the clone attempt fails and fallback is asked with
   the same block size, the two calls, started on the same source and
   destination and meeting the same outcomes of their system calls, make
   the same system calls, return the same code and leave the same
   destination. *)
C12_RangeEmulatesFile ==
  (tape.mode = "emulate") =>
    /\ tape.prev.arg.op = "file"
    /\ (pc # "idle") =>
         /\ arg = [tape.prev.arg EXCEPT !.op = "range"]
         /\ arg.src_offset = Off(0) /\ arg.dst_offset = Off(0) /\ arg.length = 0
    /\ (pc \notin {"idle", "clone"}) => (gh.nativeErr # 0 /\ arg.fallback_copy)
    /\ SecondRunAgrees("emulate")

(* the emulating range call has ended after copying in short steps *)
C12_Witness ==
  /\ tape.mode = "emulate" /\ Done /\ arg.op = "range" /\ rc = 0
  /\ gh.written >= 2 /\ gh.shortio /\ gh.intr > 0 /\ tape.replay = <<>>
  /\ dst = tape.prev.dst

(* the copy loop is left with neither an error nor ERANGE *)
LoopEndsNormally ==
  /\ pc \in {"read", "write"} /\ pc' = "done"
  /\ gh'.failed = "none" /\ rc' # ERANGE

C20_LoopEndStep ==
  /\ LoopEndsNormally =>
       IF dc.length # 0
       THEN pc = "write" /\ dc'.remain = 0 /\ gh'.written = dc.length
       ELSE pc = "read" /\ dc'.read_now = 0
  /\ (pc \in {"read", "write"} /\ pc' \in {"read", "write"}) =>
       /\ dc'.remain > 0
       /\ (pc = "read" /\ dc.length = 0 /\ gh'.intr = gh.intr) => dc'.read_now > 0

(* C20: with a finite source, boundedly many interrupted calls and every
   accepted write taking at least one byte, every call of either public
   operation returns; in fixed-length mode the loop ends when remain
   reaches 0 (all length bytes written), in copy-to-EOF mode when a read
   returns 0, and it does not go on after either. *)
C20_Terminates == <>Done /\ [][C20_LoopEndStep]_vars

(* a copy to end of file has ended on a read of 0 bytes after interruptions *)
C20_Witness ==
  /\ Done /\ rc = 0 /\ dc.length = 0 /\ dc.read_now = 0 /\ gh.read >= 3
  /\ gh.written >= 2 /\ gh.intr = MaxIntr /\ gh.shortio

WholeFileOnExisting == cpr.clone_mode = "file" /\ cpr.existed

(* C13: in cpr's whole-file mode an existing DST_FILE is overwritten only
   under -f: without -f the open of DST_FILE fails with EEXIST, neither
   library operation is called and the file keeps its content; with -f
   the file is empty when the clone is called. In range mode DST_FILE
   exists once it is open, and the clone is called on the content it had
   (none if it was missing): it is never truncated. *)
C13_OverwriteOnlyWithForce ==
  /\ (WholeFileOnExisting /\ ~cpr.force) =>
       /\ pc = "idle"
       /\ dst = cpr.dst0
       /\ cpr.dst_fd < 0
       /\ (cpr.src_fd >= 0) => (cpr.rc = EEXIST)
       /\ (cpr.step = "exit") => (cpr.status = EXIT_FAILURE)
  /\ (WholeFileOnExisting /\ dst # cpr.dst0) => cpr.force
  /\ (WholeFileOnExisting /\ cpr.force /\ pc # "idle") =>
       (gh.dst0 = MkFile(<<>>) /\ cpr.truncated)
  /\ (cpr.clone_mode = "range") =>
       /\ ~cpr.truncated
       /\ (cpr.dst_fd >= 0) => cpr.dst_exists
       /\ (pc # "idle") =>
            (gh.dst0 = IF cpr.existed THEN cpr.dst0 ELSE MkFile(<<>>))

(* cpr has ended without -f on an existing DST_FILE *)
C13_Witness ==
  /\ cpr.step = "exit" /\ WholeFileOnExisting /\ ~cpr.force
  /\ cpr.src_fd >= 0 /\ cpr.rc = EEXIST /\ cpr.status = EXIT_FAILURE
  /\ pc = "idle" /\ dst = cpr.dst0 /\ dst.size = Off(MaxDstLen)
  /\ cpr.closed = {VALID_SRC_FD}

(* the loop test is being made: before a read, or when the loop was left
   because nothing remained *)
AtLoopHead == pc = "read" \/ (Done /\ Allocated(gh) /\ dc.remain = 0)

C21_LoopState ==
  (dc.heap # "none") =>
    /\ dc.remain >= 0
    /\ (dc.length # 0) =>
         /\ gh.written <= dc.length
         /\ AtLoopHead => (dc.remain + gh.written = dc.length)
         /\ (pc = "write") =>
              (dc.remain + gh.written - gh.wbAccepted = dc.length)
    /\ (dc.length = 0) => (dc.remain = dc.block_size)

C21_ReadStep ==
  (pc = "read") =>
    /\ dc'.read_max <= dc.remain
    /\ dc'.read_max <= dc.block_size
    /\ dc'.read_max = dc.remain \/ dc'.read_max = dc.block_size
    /\ dc'.read_now <= dc'.read_max
    /\ (dc.length = 0) => (dc'.read_max = dc.block_size)

(* C21: in the fixed-length deep copy remain + bytes written = length at
   every loop head, every read asks for min(block_size, remain) bytes and
   never more than remain, remain never goes below zero and the bytes
   written never exceed length; in copy-to-EOF mode remain stays equal to
   block_size and every read asks for block_size bytes. *)
C21_LoopInvariant == []C21_LoopState /\ [][C21_ReadStep]_vars

(* the loop head before the partial last block of a three-byte span *)
C21_Witness ==
  /\ pc = "read" /\ dc.length = MaxLen /\ dc.block_size = 2
  /\ dc.remain = MaxLen - 2 /\ gh.written = 2 /\ gh.read >= 1

(* C22: in every state of a deep copy, the state after a failed call
   included, the k bytes written so far make destination bytes
   [dst_offset, dst_offset + k) equal to source bytes
   [src_offset, src_offset + k), and every byte the destination had
   outside that range is as before the call; what a failed deep copy
   wrote stays written. *)
C22_PrefixCopied ==
  Entered =>
    IF gh.written = 0
    THEN dst = gh.dst0
    ELSE /\ RangeEq(dst, AskedDst, gh.src0, AskedSrc, gh.written)
         /\ FrameOutside(AskedDst, gh.written)
         /\ dstPos = OffAdd(AskedDst, gh.written)

(* a deep copy failed in its second write and left its first byte behind *)
C22_Witness ==
  /\ Done /\ gh.failed = "write" /\ rc = ENOSPC /\ gh.written = 1
  /\ gh.write >= 2 /\ dst # gh.dst0 /\ AskedLen = MaxLen
  /\ ByteAt(dst, AskedDst) = ByteAt(gh.src0, AskedSrc)

(* the scenario: qtm_clone_file on the 10,000-byte source, the clone
   attempt failing, the deep copy in blocks of 8192 meeting no short read,
   no short write, no interrupted and no failed call *)
ScenarioRan ==
  /\ Done /\ arg.op = "file" /\ arg.fallback_copy
  /\ arg.block_size = CprBlockSize
  /\ gh.src0.size = Off(ScenarioLen)
  /\ gh.nativeErr # 0 /\ gh.intr = 0 /\ ~gh.shortio /\ ~gh.sysErr

(* C23: the scenario returns 0 and leaves a destination of exactly 10,000
   bytes identical to the source; exactly two reads deliver a block, the
   first of 8192 bytes and the second of 1808 bytes, each written in full,
   and the only other read is the one that returns 0 at the end of the
   source and ends the loop. *)
C23_TwoBlocksThenEof ==
  ScenarioRan =>
    /\ rc = 0
    /\ SameContent(dst, gh.src0)
    /\ dst.size = Off(ScenarioLen)
    /\ gh.read = 3 /\ gh.write = 2
    /\ gh.nread = ScenarioLen /\ gh.written = ScenarioLen
    /\ tape.log = ScenarioScript

C23_Witness ==
  /\ ScenarioRan /\ rc = 0 /\ gh.read = 3 /\ gh.dst0.size = Off(MaxDstLen)
  /\ dst.size = Off(ScenarioLen)

(* a step that issues a read(), and one that issues a write() *)
IsReadStep == gh'.read = gh.read + 1

IsWriteStep == gh'.write = gh.write + 1

C24_Step ==
  /\ src' = src
  /\ IsReadStep =>
       /\ pc = "read" /\ ~IsWriteStep
       /\ dst' = dst /\ dstPos' = dstPos
       /\ srcPos' = OffAdd(srcPos, IF dc'.read_now > 0 THEN dc'.read_now ELSE 0)
       /\ (dc.read_now > 0) =>
            /\ gh.wbAccepted = dc.read_now
            /\ dc.wb_length = 0
            /\ dstPos = OffAdd(gh.wbDst, dc.read_now)
            /\ WbOnDisk(dst, gh, dc, dc.read_now)
  /\ IsWriteStep =>
       /\ pc = "write" /\ ~IsReadStep
       /\ srcPos' = srcPos
       /\ dstPos' = OffAdd(dstPos, gh'.wbAccepted - gh.wbAccepted)
  /\ (~IsReadStep) => (srcPos' = srcPos \/ pc = "seek_src")
  /\ (~IsWriteStep) => (dst' = dst \/ pc = "clone")

(* C24: in a deep copy every read acts on the source handle alone and every
   write on the destination handle alone; when a read is issued after a
   block was read, that whole block lies on the destination; no step of
   either operation changes the source file, whose contents at the return
   of every call are those it was called with. *)
C24_DataFlow == [](Done => src = gh.src0) /\ [][C24_Step]_vars

(* a deep copy of two blocks, one of them written in two parts, returned 0 *)
C24_Witness ==
  /\ Done /\ rc = 0 /\ gh.read >= 2 /\ gh.write >= 3 /\ gh.shortio
  /\ src = gh.src0 /\ dst # gh.dst0 /\ gh.written >= 2

(* the place of a step in main *)
StepRank(step) ==
  CASE step = "open" -> 1
    [] step = "clone" -> 2
    [] step = "preserve" -> 3
    [] step = "fsync" -> 4
    [] step = "close" -> 5

AllZero(ran, n) == \A i \in 1..n : ran[i].ret = 0

(* C25: the steps of main run in the order open, clone, preserve
   attributes, fsync, close, none of them twice; clone, preserve and fsync
   run only after every earlier step returned 0; when main has returned,
   open and close have run, every file descriptor that was opened has been
   closed, and the exit status is EXIT_SUCCESS exactly when every step that
   ran, close included, returned 0. *)
C25_DriverSteps ==
  LET ran == cpr.ran
  IN  /\ \A i \in 1..Len(ran), j \in 1..Len(ran) :
           (i < j) => (StepRank(ran[i].step) < StepRank(ran[j].step))
      /\ \A j \in 1..Len(ran) :
           (ran[j].step \in {"clone", "preserve", "fsync"}) => AllZero(ran, j - 1)
      /\ (cpr.step = "exit") => (cpr.closed = cpr.opened)
      /\ (cpr.step = "exit" /\ ran # <<>>) =>
           /\ ran[1].step = "open"
           /\ ran[Len(ran)].step = "close"
           /\ (cpr.status = EXIT_SUCCESS) <=> AllZero(ran, Len(ran))
           /\ cpr.status \in {EXIT_SUCCESS, EXIT_FAILURE}

(* every step ran and returned 0 but the close, and cpr exits with failure *)
C25_Witness ==
  /\ cpr.step = "exit" /\ Len(cpr.ran) = 5 /\ AllZero(cpr.ran, 4)
  /\ cpr.ran[5].ret # 0 /\ cpr.status = EXIT_FAILURE
  /\ cpr.closed = {VALID_SRC_FD, VALID_DST_FD}

====
